---- MODULE Spec2Model ----
(***************************************************************************)
(* Rating cache and synchronisation engine of the House Color Gallery      *)
(* (src/js/ratings.js): the in-memory cache of vote maps, the subscriber   *)
(* registry, the local serialized record kept in localStorage and the      *)
(* remote Firestore collections, with every asynchronous completion as a   *)
(* separate step.                                                          *)
(***************************************************************************)
EXTENDS Integers, Sequences, FiniteSets, TLC

\* ------------------------------------------------------------------ bounds
MaxOps == 3          \* API calls and environment events in one behaviour
MaxPending == 2      \* asynchronous operations in flight at once
MaxCalls == 2        \* times one unsubscribe or cleanup handle is called

\* ------------------------------------------------------------ value spaces
Images == {"img1", "img2"}
Guest == "Guest"
Users == {"A", "B", Guest}
\* Names the page passes to init, names App.setUser stores, and the voters
\* and values other sessions write to the shared store.
InitNames == {"A"}
AppNames == {"B"}
OtherVoters == {"B"}
OtherValues == {"dislike", "love"}
VALID == {"like", "unsure", "dislike"}
Null == "<null>"
Undefined == "<undefined>"

\* What callers pass as image id and rating, before normalizeText.
RawIds == {"img1", " img1 ", "img2", ""}
RawRatings == {"like", " like ", "dislike", "love"}
Subscribers == {"cb1"}
Cards == {"card1"}

\* ------------------------------------------------------------- vote maps
EmptyMap == [u \in {} |-> "like"]
Put(m, u, v) == [x \in (DOMAIN m) \cup {u} |-> IF x = u THEN v ELSE m[x]]
Del(m, u) == [x \in (DOMAIN m) \ {u} |-> m[x]]
Cell(m, u) == IF u \in DOMAIN m THEN m[u] ELSE Undefined

\* String(value ?? "").trim()
normalizeText(value) ==
  CASE value = Null -> ""
    [] value = " img1 " -> "img1"
    [] value = " like " -> "like"
    [] OTHER -> value

VARIABLES
  db,            \* TRUE iff a Firestore handle is bound
  currentUser,   \* the module's current-user binding, or Null
  appUser,       \* what App.getUser() returns, or Null
  cache,         \* imageId -> vote map (a Map: the domain is the set of keys)
  watchers,      \* imageId -> set of callbacks (a Map of Sets)
  handles,       \* the unsubscribe handles handed out so far, each with
                 \* the number of the call that made it and how often it ran
  localStorage,  \* [houseRatings, houseColorUser]
  remote,        \* images/{id}/ratings: imageId -> (doc id -> value)
  feeds,         \* live onSnapshot listeners
  pending,       \* asynchronous operations in flight
  ops,           \* number of API calls and environment events so far
  trace,         \* what the last step did, in program order
  failed,        \* votes whose remote write failed and still stand
  streak,        \* consecutive identical setRating calls
  latest,        \* (image, voter) -> the voter's most recent accepted setRating
  allRatings,    \* Results: imageId -> vote map, as loaded for the results page
  ratingsCache,  \* Gallery: state.ratingsCache, imageId -> vote map
  view,          \* what the last aggregation over the catalog computed
  filtered,      \* what the last applyRatingFilter call was given and returned
  compareSelection, \* the Lightbox's comparison selection, an array of ids
  compareCall,   \* the last toggleCompare or clearComparison call
  gallery,       \* the Gallery grid, its cleanup list and its renders in flight
  resultsView,   \* what the last renderResults call placed in each category
  swatches       \* the loaded swatches and what renderSwatches last rendered

\* The state of the Ratings module and of its stores.
ratingsVars == <<db, currentUser, appUser, cache, watchers, handles, localStorage,
                 remote, feeds, pending, ops, trace, failed, streak, latest>>

\* The state of the Lightbox comparison.
lightboxVars == <<compareSelection, compareCall>>

\* The state of the pages built over the vote maps (Results, Gallery and
\* Lightbox).
\* The state of the rendered pages.
pageVars == <<gallery, resultsView, swatches>>

aggVars == <<allRatings, ratingsCache, view, filtered, lightboxVars, pageVars>>

vars == <<db, currentUser, appUser, cache, watchers, handles, localStorage,
          remote, feeds, pending, ops, trace, failed, streak, latest,
          allRatings, ratingsCache, view, filtered, compareSelection, compareCall,
          gallery, resultsView, swatches>>

\* ------------------------------------------------------------ local record
\* JSON.stringify of an imageId -> vote map object: the text lists the keys
\* and the cells; JSON.parse rebuilds the object from the text.
JSONstringify(store) ==
  [present |-> TRUE, keys |-> DOMAIN store,
   cells |-> UNION {{<<i, u, store[i][u]>> : u \in DOMAIN store[i]} : i \in DOMAIN store}]

JSONparse(text) ==
  [i \in text.keys |->
     [u \in {c[2] : c \in {d \in text.cells : d[1] = i}} |->
        (CHOOSE c \in text.cells : c[1] = i /\ c[2] = u)[3]]]

EmptyStore == [i \in {} |-> EmptyMap]

\* localStorage.getItem of a key that was never written.
NoItem == [present |-> FALSE, keys |-> {}, cells |-> {}]

loadOfflineStore(ls) ==
  IF ~ls.houseRatings.present THEN EmptyStore ELSE JSONparse(ls.houseRatings)

writeOfflineStore(ls, store) ==
  [ls EXCEPT !.houseRatings = JSONstringify(store)]

\* ------------------------------------------------------------ trace entries
Entry(e, img, who, val, cbs, map) ==
  [e |-> e, img |-> img, who |-> who, val |-> val, cbs |-> cbs, map |-> map]
Mark(e, img) == Entry(e, img, Null, Null, {}, EmptyMap)
OpMark(e, op) == Entry(e, op.img, op.user, op.value, {}, EmptyMap)

NoStreak == [img |-> Null, user |-> Null, value |-> Null, count |-> 0]

\* No accepted setRating yet.
NoCalls ==
  [p \in {} |-> [cell |-> Undefined, value |-> Null, fellBack |-> FALSE, n |-> 0, older |-> {}]]

\* No filter applied yet.
NoFilter == [filter |-> Null, user |-> Null, images |-> <<>>, results |-> <<>>]

\* Nothing rendered yet.
NoGallery == [grid |-> <<>>, unsubscribers |-> <<>>, mounted |-> {}, rendering |-> {},
              renders |-> 0]
NoResults == [selectedUser |-> Null, categories |-> [c \in {} |-> <<>>]]
NoSwatches == [list |-> <<>>, filter |-> Null, count |-> 0, cards |-> <<>>]

\* No comparison call yet.
NoCompare == [fn |-> Null, id |-> Null, before |-> <<>>, returned |-> Null]

\* Nothing aggregated yet.
NoView == [fn |-> Null, category |-> [i \in {} |-> Null], key |-> [i \in {} |-> 0]]

\* ------------------------------------------------------------------ helpers
\* The elements of a sequence.
Range(seq) == {seq[k] : k \in 1..Len(seq)}

\* A name that || does not skip: neither null nor the empty string.
truthy(name) == name # Null /\ name # ""

\* resolveUser without the literal fallback.
resolveUserNoGuest ==
  IF truthy(currentUser) THEN currentUser
  ELSE IF truthy(appUser) THEN appUser
  ELSE localStorage.houseColorUser

resolveUser ==
  IF truthy(currentUser) THEN currentUser
  ELSE IF truthy(appUser) THEN appUser
  ELSE IF truthy(localStorage.houseColorUser) THEN localStorage.houseColorUser
  ELSE Guest

getCachedRatings(c, imageId) ==
  IF imageId \in DOMAIN c THEN c[imageId] ELSE EmptyMap

\* cache.set(imageId, ratings)
cacheSet(c, imageId, ratings) ==
  [i \in (DOMAIN c) \cup {imageId} |-> IF i = imageId THEN ratings ELSE c[i]]

\* notify: one delivery of a copy of the cached map to every watcher of the
\* image, nothing when the registry has no key for it.
notify(w, c, imageId) ==
  IF imageId \notin DOMAIN w THEN <<>>
  ELSE <<Entry("notify", imageId, Null, Null, w[imageId], getCachedRatings(c, imageId))>>

\* setCachedRatings: the new cache and what the call does, in order.
setCachedRatings(c, imageId, ratings) == cacheSet(c, imageId, ratings)

\* setCachedRatings without the call of notify.
setCachedRatingsTraceQuiet(w, c, imageId, ratings) ==
  <<Entry("cache", imageId, Null, Null, {}, ratings)>>

\* setCachedRatings that also broadcasts the change event.
setCachedRatingsTraceBroadcasts(w, c, imageId, ratings) ==
  <<Entry("cache", imageId, Null, Null, {}, ratings)>>
    \o notify(w, setCachedRatings(c, imageId, ratings), imageId)
    \o <<Mark("ratingChanged", imageId)>>

\* setCachedRatings that notifies before the cache holds the new map.
setCachedRatingsTraceStale(w, c, imageId, ratings) ==
  notify(w, c, imageId) \o <<Entry("cache", imageId, Null, Null, {}, ratings)>>

setCachedRatingsTrace(w, c, imageId, ratings) ==
  <<Entry("cache", imageId, Null, Null, {}, ratings)>>
    \o notify(w, setCachedRatings(c, imageId, ratings), imageId)

\* applyOffline that upserts only into a map the record already holds.
applyOfflineKnownImages(ls, id, user, value, isToggleOff) ==
  LET store == loadOfflineStore(ls)
      next == IF id \notin DOMAIN store THEN store
              ELSE IF isToggleOff THEN [store EXCEPT ![id] = Del(store[id], user)]
              ELSE [store EXCEPT ![id] = Put(store[id], user, value)]
  IN writeOfflineStore(ls, next)

\* The delta of one setRating applied to the local record (lines 135-141 and
\* 172-178): a retraction deletes the cell if the image has a map, a vote
\* upserts the cell; the whole record is written back either way.
applyOffline(ls, id, user, value, isToggleOff) ==
  LET store == loadOfflineStore(ls)
      next == IF isToggleOff
                THEN IF id \in DOMAIN store
                       THEN [store EXCEPT ![id] = Del(store[id], user)]
                       ELSE store
                ELSE cacheSet(store, id,
                       Put(IF id \in DOMAIN store THEN store[id] ELSE EmptyMap, user, value))
  IN writeOfflineStore(ls, next)

\* An in-flight asynchronous operation; stale marks the store write of a
\* setRating after which the same voter has rated the same image again.
Op(kind, n, stage, img, user, value, off, result) ==
  [kind |-> kind, n |-> n, stage |-> stage, img |-> img, user |-> user,
   value |-> value, off |-> off, result |-> result, stale |-> FALSE]

superseded(ops_, id, user) ==
  {IF op.kind = "set" /\ op.img = id /\ op.user = user
     THEN [op EXCEPT !.stale = TRUE] ELSE op : op \in ops_}

\* --------------------------------------------------------------------- Init
Init ==
  /\ db \in BOOLEAN
  /\ currentUser = Null
  /\ appUser = Null
  /\ cache = EmptyStore
  /\ watchers = [i \in {} |-> {}]
  /\ handles = {}
  /\ localStorage = [houseRatings |-> NoItem, houseColorUser |-> Null]
  /\ remote = [i \in Images |-> EmptyMap]
  /\ feeds = {}
  /\ pending = {}
  /\ ops = 0
  /\ trace = <<>>
  /\ failed = {}
  /\ streak = NoStreak
  /\ latest = NoCalls
  /\ allRatings = EmptyStore
  /\ ratingsCache = EmptyStore
  /\ view = NoView
  /\ filtered = NoFilter
  /\ compareSelection = <<>>
  /\ compareCall = NoCompare
  /\ gallery = NoGallery
  /\ resultsView = NoResults
  /\ swatches = NoSwatches

\* ---------------------------------------------------------------- setRating
nextStreak(id, user, value) ==
  IF streak.img = id /\ streak.user = user /\ streak.value = value
    THEN [streak EXCEPT !.count = @ + 1]
  ELSE IF Cell(getCachedRatings(cache, id), user) # value
    THEN [img |-> id, user |-> user, value |-> value, count |-> 1]
  ELSE NoStreak

\* toggled without the retraction branch.
toggledNeverRetracts(currentRatings, user, value) == Put(currentRatings, user, value)

\* toggled that starts from an empty map instead of a copy of the cached one.
toggledDropsOthers(currentRatings, user, value) ==
  IF Cell(currentRatings, user) = value THEN EmptyMap ELSE Put(EmptyMap, user, value)

\* The toggle rule of lines 119-128.
toggled(currentRatings, user, value) ==
  IF Cell(currentRatings, user) = value
    THEN Del(currentRatings, user)
    ELSE Put(currentRatings, user, value)

\* The guards without the check of the rating value.
acceptedAnyValue(id, value) == id # ""

\* The guards of lines 112-113.
accepted(id, value) == id # "" /\ value \in VALID

\* A vote whose remote write failed stands until the voter rates the image again.
failedAfter(op) ==
  IF op.off \/ op.stale THEN failed
  ELSE failed \cup {[img |-> op.img, user |-> op.user, value |-> op.value]}

\* The record of the voter's most recent accepted call for the image: the
\* cell it left in the cache, the rating it was given, the number of the
\* call, whether its remote write has failed and fallen back to the local
\* record, and the values of the voter's earlier writes to the image that
\* were still in flight.
called(l, id, user, value, isToggleOff) ==
  LET rec == [cell |-> IF isToggleOff THEN Undefined ELSE value,
              value |-> value,
              fellBack |-> FALSE,
              n |-> ops,
              older |-> {op.value : op \in {o \in pending :
                           o.kind = "set" /\ o.img = id /\ o.user = user /\ ~o.off}}]
  IN [p \in (DOMAIN l) \cup {<<id, user>>} |-> IF p = <<id, user>> THEN rec ELSE l[p]]

\* The record of the most recent calls once the write of op has settled.
settled(l, op, ok) ==
  [p \in DOMAIN l |->
     IF p = <<op.img, op.user>> /\ l[p].n = op.n /\ ~ok
       THEN [l[p] EXCEPT !.fellBack = TRUE]
       ELSE l[p]]

setRating(imageId, rating) ==
  LET id == normalizeText(imageId)
      value == normalizeText(rating)
      user == resolveUser
      call == Entry("setRating", id, user, value, {}, EmptyMap)
      currentRatings == getCachedRatings(cache, id)
      isToggleOff == Cell(currentRatings, user) = value
      next == toggled(currentRatings, user, value)
      sync == <<call>> \o setCachedRatingsTrace(watchers, cache, id, next)
                \o <<Mark("ratingChanged", id)>>
  IN
  /\ ops < MaxOps
  /\ ops' = ops + 1
  /\ IF ~accepted(id, value) \/ ~truthy(user)
       THEN /\ trace' = <<call, Mark("return", id)>>
            /\ UNCHANGED <<cache, localStorage, pending, failed, streak, latest>>
       ELSE /\ cache' = setCachedRatings(cache, id, next)
            /\ streak' = nextStreak(id, user, value)
            /\ latest' = called(latest, id, user, value, isToggleOff)
            /\ failed' = {f \in failed : ~(f.img = id /\ f.user = user)}
            /\ IF ~db
                 THEN /\ localStorage' = applyOffline(localStorage, id, user, value, isToggleOff)
                      /\ trace' = sync \o <<Entry("localWrite", id, user, value, {}, EmptyMap),
                                              Mark("return", id)>>
                      /\ pending' = superseded(pending, id, user)
                 ELSE /\ Cardinality(pending) < MaxPending
                      /\ pending' = superseded(pending, id, user) \cup
                           {Op("set", ops, "user", id, user, value, isToggleOff, EmptyMap)}
                      /\ trace' = sync \o <<Mark("userDocStart", id)>>
                      /\ UNCHANGED localStorage
  /\ UNCHANGED <<db, currentUser, appUser, watchers, handles, remote, feeds>>

\* ensureUserDocument settles (lines 98-106: a failure is logged, not thrown).
\* For a setRating the remote write or delete of lines 148-168 starts next; if
\* the Firestore handle is gone by then the call throws into the catch block.
ensureUserDocumentDone(op, ok) ==
  LET done == OpMark(IF ok THEN "userDocDone" ELSE "userDocFail", op) IN
  /\ op \in pending
  /\ op.stage = "user"
  /\ IF op.kind = "ensureUser"
       THEN /\ pending' = pending \ {op}
            /\ trace' = <<done>>
            /\ UNCHANGED <<localStorage, failed>>
     ELSE IF db
       THEN /\ pending' = (pending \ {op}) \cup {[op EXCEPT !.stage = "write"]}
            /\ trace' = <<done, OpMark("remoteStart", op)>>
            /\ UNCHANGED <<localStorage, failed>>
       ELSE /\ pending' = pending \ {op}
            /\ localStorage' = applyOffline(localStorage, op.img, op.user, op.value, op.off)
            /\ failed' = failedAfter(op)
            /\ trace' = <<done, OpMark("remoteFail", op),
                          OpMark("localWrite", op), Mark("return", op.img)>>
  /\ latest' = IF op.kind = "set" /\ ~db THEN settled(latest, op, FALSE) ELSE latest
  /\ UNCHANGED <<db, currentUser, appUser, cache, watchers, handles, remote, feeds,
                 ops, streak>>

\* remoteWriteDone whose failure takes the optimistic update back.
remoteWriteDoneRollsBack(op, ok) ==
  LET undone == IF op.off THEN Put(getCachedRatings(cache, op.img), op.user, op.value)
                ELSE Del(getCachedRatings(cache, op.img), op.user)
  IN
  /\ op \in pending
  /\ op.kind = "set"
  /\ op.stage = "write"
  /\ pending' = pending \ {op}
  /\ IF ok
       THEN /\ remote' = [remote EXCEPT ![op.img] =
                 IF op.off THEN Del(@, op.user) ELSE Put(@, op.user, op.value)]
            /\ trace' = <<OpMark("remoteAck", op), Mark("return", op.img)>>
            /\ UNCHANGED <<localStorage, failed, cache>>
       ELSE /\ localStorage' = applyOffline(localStorage, op.img, op.user, op.value, op.off)
            /\ failed' = failedAfter(op)
            /\ cache' = setCachedRatings(cache, op.img, undone)
            /\ trace' = <<OpMark("remoteFail", op)>>
                          \o setCachedRatingsTrace(watchers, cache, op.img, undone)
                          \o <<OpMark("localWrite", op), Mark("return", op.img)>>
            /\ UNCHANGED remote
  /\ UNCHANGED <<latest, db, currentUser, appUser, watchers, handles, feeds, ops, streak>>

\* remoteWriteDone without the catch block of lines 169-179.
remoteWriteDoneThrows(op, ok) ==
  /\ op \in pending
  /\ op.kind = "set"
  /\ op.stage = "write"
  /\ pending' = pending \ {op}
  /\ IF ok
       THEN /\ remote' = [remote EXCEPT ![op.img] =
                 IF op.off THEN Del(@, op.user) ELSE Put(@, op.user, op.value)]
            /\ trace' = <<OpMark("remoteAck", op), Mark("return", op.img)>>
       ELSE /\ trace' = <<OpMark("remoteFail", op), Mark("reject", op.img)>>
            /\ UNCHANGED remote
  /\ UNCHANGED <<latest, db, currentUser, appUser, cache, watchers, handles, feeds,
                 ops, streak, localStorage, failed>>

\* The remote write or delete of a setRating settles: applied to the cell, or
\* failed and the same delta written to the local record (lines 169-179).
remoteWriteDone(op, ok) ==
  /\ op \in pending
  /\ op.kind = "set"
  /\ op.stage = "write"
  /\ pending' = pending \ {op}
  /\ IF ok
       THEN /\ remote' = [remote EXCEPT ![op.img] =
                 IF op.off THEN Del(@, op.user) ELSE Put(@, op.user, op.value)]
            /\ trace' = <<OpMark("remoteAck", op), Mark("return", op.img)>>
            /\ UNCHANGED <<localStorage, failed>>
       ELSE /\ localStorage' = applyOffline(localStorage, op.img, op.user, op.value, op.off)
            /\ failed' = failedAfter(op)
            /\ trace' = <<OpMark("remoteFail", op), OpMark("localWrite", op),
                          Mark("return", op.img)>>
            /\ UNCHANGED remote
  /\ latest' = settled(latest, op, ok)
  /\ UNCHANGED <<db, currentUser, appUser, cache, watchers, handles, feeds,
                 ops, streak>>

\* ------------------------------------------------------- subscribeToRatings
\* The closure returned by one subscribeToRatings or mountCard call: n is the
\* number of the call that created it, calls counts how often it has run.
Handle(kind, img, cb, n) ==
  [kind |-> kind, img |-> img, cb |-> cb, n |-> n, calls |-> 0]

ran(hs, h) == (hs \ {h}) \cup {[h EXCEPT !.calls = @ + 1]}

callOrdinal(h) == IF h.calls = 0 THEN "first" ELSE "again"

\* watchers after lines 72-73.
addWatcher(w, id, callback) ==
  [i \in (DOMAIN w) \cup {id} |->
     IF i = id THEN (IF id \in DOMAIN w THEN w[id] ELSE {}) \cup {callback} ELSE w[i]]

\* A handle that drops the image's key only when the set is already empty.
removeWatcherKeeps(w, id, callback) ==
  IF id \notin DOMAIN w THEN w
  ELSE IF w[id] = {} THEN [i \in (DOMAIN w) \ {id} |-> w[i]]
  ELSE w

\* watchers after the returned handle has run (lines 85-90).
removeWatcher(w, id, callback) ==
  IF id \notin DOMAIN w THEN w
  ELSE IF w[id] \ {callback} = {}
    THEN [i \in (DOMAIN w) \ {id} |-> w[i]]
    ELSE [w EXCEPT ![id] = @ \ {callback}]

\* A snapshot that keeps every document, whatever its value.
snapshotRatingsUnfiltered(docs) == [u \in DOMAIN docs |-> normalizeText(docs[u])]

\* Snapshot of a ratings collection as lines 193-197 and 299-303 read it.
snapshotRatings(docs) ==
  [u \in {d \in DOMAIN docs : normalizeText(docs[d]) \in VALID} |-> normalizeText(docs[u])]

\* getRatings that answers with the empty map when no remote store is bound.
getRatingsStartForgetsRecord(id, n, then) ==
  IF ~db
    THEN Op("read", n, "resolved", id, Null, then, FALSE, EmptyMap)
    ELSE Op("read", n, "fetch", id, Null, then, FALSE, EmptyMap)

\* getRatings up to its first suspension (lines 183-192): without a Firestore
\* handle the local record is read at once and the promise is already
\* resolved; with one the remote read is in flight.
getRatingsStart(id, n, then) ==
  IF ~db
    THEN Op("read", n, "resolved", id, Null, then, FALSE,
            getCachedRatings(loadOfflineStore(localStorage), id))
    ELSE Op("read", n, "fetch", id, Null, then, FALSE, EmptyMap)

\* No hydration at all.
hydrationNever(id, n) == {}

\* The hydration of lines 79-83, started when the cache has no entry.
hydration(id, n) ==
  IF id \in DOMAIN cache THEN {} ELSE {getRatingsStart(id, n, "hydrate")}

\* subscribeToRatings without the immediate delivery of line 76.
subscribeTraceSilent(id, callback) ==
  IF id \in DOMAIN cache THEN <<>>
  ELSE IF ~db THEN <<Mark("localRead", id)>>
  ELSE <<Mark("readStart", id)>>

\* What lines 76-83 do, in order.
subscribeTrace(id, callback) ==
  <<Entry("deliver", id, Null, Null, {callback}, getCachedRatings(cache, id))>>
    \o (IF id \in DOMAIN cache THEN <<>>
        ELSE IF ~db THEN <<Mark("localRead", id)>>
        ELSE <<Mark("readStart", id)>>)

subscribeToRatings(imageId, callback) ==
  LET id == normalizeText(imageId)
      call == Entry("subscribeToRatings", id, callback, Null, {}, EmptyMap)
  IN
  /\ ops < MaxOps
  /\ ops' = ops + 1
  /\ IF id = "" \/ callback = Null
       THEN /\ trace' = <<call, Mark("return", id)>>
            /\ UNCHANGED <<watchers, handles, pending>>
       ELSE /\ Cardinality(pending \cup hydration(id, ops)) <= MaxPending
            /\ watchers' = addWatcher(watchers, id, callback)
            /\ pending' = pending \cup hydration(id, ops)
            /\ handles' = handles \cup {Handle("sub", id, callback, ops)}
            /\ trace' = <<call>> \o subscribeTrace(id, callback) \o <<Mark("return", id)>>
  /\ UNCHANGED <<latest, failed, db, currentUser, appUser, cache, localStorage, remote, feeds,
                 streak>>

\* Calling a handle returned by subscribeToRatings, for the first time or
\* again (lines 85-90).
unsubscribe(h) ==
  /\ h \in handles
  /\ h.kind = "sub"
  /\ h.calls < MaxCalls
  /\ handles' = ran(handles, h)
  /\ watchers' = removeWatcher(watchers, h.img, h.cb)
  /\ trace' = <<Entry("unsubscribe", h.img, h.cb, callOrdinal(h), {}, EmptyMap),
                Mark("return", h.img)>>
  /\ UNCHANGED <<latest, failed, db, currentUser, appUser, cache, localStorage, remote,
                 feeds, pending, ops, streak>>

\* ---------------------------------------------------------------- getRatings
getRatings(imageId) ==
  LET id == normalizeText(imageId)
      call == Entry("getRatings", id, Null, Null, {}, EmptyMap)
  IN
  /\ ops < MaxOps
  /\ ops' = ops + 1
  /\ Cardinality(pending) < MaxPending
  /\ pending' = pending \cup
       {IF id = "" THEN Op("read", ops, "resolved", id, Null, "caller", FALSE, EmptyMap)
        ELSE getRatingsStart(id, ops, "caller")}
  /\ trace' = <<call>> \o (IF id = "" THEN <<>>
                          ELSE IF ~db THEN <<Mark("localRead", id)>>
                          ELSE <<Mark("readStart", id)>>)
  /\ UNCHANGED <<latest, failed, db, currentUser, appUser, cache, watchers, handles, localStorage,
                 remote, feeds, streak>>

\* readResult that answers a failed remote read with the empty map.
readResultEmptyOnFailure(op, ok) ==
  IF op.stage = "resolved" THEN op.result
  ELSE IF ok THEN snapshotRatings(remote[op.img])
  ELSE EmptyMap

\* What a read resolves to: the value read when the call was made (no
\* Firestore handle), the filtered remote snapshot, or after a failed remote
\* read the local record's map (lines 199-204).
readResult(op, ok) ==
  IF op.stage = "resolved" THEN op.result
  ELSE IF ok THEN snapshotRatings(remote[op.img])
  ELSE getCachedRatings(loadOfflineStore(localStorage), op.img)

\* A getRatings promise resolves: to its caller, or into the then-callback of
\* the hydration (line 81).
getRatingsDone(op, ok) ==
  LET ratings == readResult(op, ok)
      how == IF op.stage = "resolved" THEN "local" ELSE IF ok THEN "remote" ELSE "fallback"
  IN
  /\ op \in pending
  /\ op.kind = "read"
  /\ op.stage = "fetch" \/ ok
  /\ pending' = pending \ {op}
  /\ IF op.value = "hydrate"
       THEN /\ cache' = setCachedRatings(cache, op.img, ratings)
            /\ trace' = <<Entry("resolve", op.img, how, "hydrate", {}, ratings)>>
                          \o setCachedRatingsTrace(watchers, cache, op.img, ratings)
            /\ streak' = IF streak.img = op.img THEN NoStreak ELSE streak
       ELSE /\ trace' = <<Entry("resolve", op.img, how, "caller", {}, ratings)>>
            /\ UNCHANGED <<cache, streak>>
  /\ UNCHANGED <<latest, failed, db, currentUser, appUser, watchers, handles, localStorage, remote,
                 feeds, ops>>

\* ----------------------------------------------------------------- mountCard
\* Lines 276-321. The card's callback is the closure of line 311, one per
\* mounted card; with a Firestore handle a live feed is registered first,
\* unless onSnapshot throws (snapOk = FALSE, lines 306-308).
mountCard(cardEl, imageId, snapOk) ==
  LET id == normalizeText(imageId)
      call == Entry("mountCard", id, cardEl, Null, {}, EmptyMap)
      live == db /\ snapOk
  IN
  /\ ops < MaxOps
  /\ ops' = ops + 1
  /\ cardEl = Null \/ \A h \in handles : h.cb # cardEl
  /\ db \/ snapOk
  /\ IF id = "" \/ cardEl = Null
       THEN /\ trace' = <<call, Mark("return", id)>>
            /\ UNCHANGED <<watchers, handles, pending, feeds>>
       ELSE /\ Cardinality(pending \cup hydration(id, ops)) <= MaxPending
            /\ feeds' = IF live THEN feeds \cup {[img |-> id, cb |-> cardEl]} ELSE feeds
            /\ watchers' = addWatcher(watchers, id, cardEl)
            /\ pending' = pending \cup hydration(id, ops)
            /\ handles' = handles \cup {Handle("card", id, cardEl, ops)}
            /\ trace' = <<call>>
                        \o (IF live THEN <<Mark("feedStart", id)>> ELSE <<>>)
                        \o subscribeTrace(id, cardEl) \o <<Mark("return", id)>>
  /\ UNCHANGED <<latest, failed, db, currentUser, appUser, cache, localStorage, remote, streak>>

\* A cleanup handle that leaves the live feed registered.
stopFeedNever(fs, h) == fs

\* firestoreUnsub() of line 315.
stopFeed(fs, h) == fs \ {[img |-> h.img, cb |-> h.cb]}

\* The cleanup handle of lines 313-320: the live feed first, then the local
\* registration.
cleanupCard(h) ==
  /\ h \in handles
  /\ h.kind = "card"
  /\ h.calls < MaxCalls
  /\ handles' = ran(handles, h)
  /\ feeds' = stopFeed(feeds, h)
  /\ watchers' = removeWatcher(watchers, h.img, h.cb)
  /\ trace' = <<Entry("cleanupCard", h.img, h.cb, callOrdinal(h), {}, EmptyMap),
                Mark("return", h.img)>>
  /\ UNCHANGED <<latest, failed, db, currentUser, appUser, cache, localStorage, remote,
                 pending, ops, streak>>

\* A live feed delivers the current snapshot of its image (lines 298-305).
storeNotify(f) ==
  LET ratings == snapshotRatings(remote[f.img]) IN
  /\ f \in feeds
  /\ cache' = setCachedRatings(cache, f.img, ratings)
  /\ trace' = <<Entry("snapshot", f.img, f.cb, Null, {}, ratings)>>
                \o setCachedRatingsTrace(watchers, cache, f.img, ratings)
  /\ streak' = IF streak.img = f.img THEN NoStreak ELSE streak
  /\ UNCHANGED <<latest, failed, db, currentUser, appUser, watchers, handles, localStorage, remote,
                 feeds, pending, ops>>

\* ---------------------------------------------------------------------- init
\* Lines 323-327; resolveUser is evaluated after the new binding is in place.
init(firestore, userName) ==
  LET user == IF truthy(userName) THEN userName
              ELSE IF truthy(appUser) THEN appUser
              ELSE IF truthy(localStorage.houseColorUser) THEN localStorage.houseColorUser
              ELSE Guest
      call == Entry("init", Null, userName, Null, {}, EmptyMap)
  IN
  /\ ops < MaxOps
  /\ ops' = ops + 1
  /\ db' = firestore
  /\ currentUser' = (IF truthy(userName) THEN userName ELSE Null)
  /\ IF firestore
       THEN /\ Cardinality(pending) < MaxPending
            /\ pending' = pending \cup
                 {Op("ensureUser", ops, "user", Null, user, Null, FALSE, EmptyMap)}
            /\ trace' = <<call, Mark("userDocStart", Null)>>
       ELSE /\ trace' = <<call>>
            /\ UNCHANGED pending
  /\ UNCHANGED <<latest, failed, appUser, cache, watchers, handles, localStorage, remote, feeds,
                 streak>>

\* ----------------------------------------------------------- the environment
\* The session's voter changes: App.setUser stores the name (part_003 lines
\* 112-117), the change-name button clears it (part_003 lines 153-157).
appUserChange(name) ==
  /\ ops < MaxOps
  /\ ops' = ops + 1
  /\ name # appUser
  /\ appUser' = name
  /\ localStorage' = [localStorage EXCEPT !.houseColorUser = name]
  /\ trace' = <<Entry("appUserChange", Null, name, Null, {}, EmptyMap)>>
  /\ UNCHANGED <<latest, failed, db, currentUser, cache, watchers, handles, remote, feeds, pending,
                 streak>>

\* The page is reloaded: the module is evaluated again (lines 15-19), so the
\* binding of the Firestore handle and of the user, the cache, the registry
\* and every promise and listener of the old page are gone; localStorage and
\* the remote store stay, and App.init reads the stored name (part_003 line
\* 33).  The reload happens with no store operation in flight: what becomes
\* of a request cut off by a reload is decided by the browser and the SDK.
reload ==
  /\ pending = {}
  /\ ops < MaxOps
  /\ ops' = ops + 1
  /\ db' = FALSE
  /\ currentUser' = Null
  /\ appUser' = localStorage.houseColorUser
  /\ cache' = EmptyStore
  /\ watchers' = [i \in {} |-> {}]
  /\ handles' = {}
  /\ feeds' = {}
  /\ streak' = NoStreak
  /\ latest' = NoCalls
  /\ trace' = <<Mark("reload", Null)>>
  /\ UNCHANGED <<localStorage, remote, failed, pending>>

\* Another session writes (value) or deletes (Undefined) one ratings document
\* of the shared remote store.
remoteOtherWrite(img, user, value) ==
  /\ ops < MaxOps
  /\ ops' = ops + 1
  /\ remote' = [remote EXCEPT ![img] =
       IF value = Undefined THEN Del(@, user) ELSE Put(@, user, value)]
  /\ remote' # remote
  /\ trace' = <<Entry("remoteOtherWrite", img, user, value, {}, EmptyMap)>>
  /\ UNCHANGED <<latest, failed, db, currentUser, appUser, cache, watchers, handles, localStorage,
                 feeds, pending, streak>>

\* --------------------------------------------------------------------- Next
Next ==
  \/ (\E i \in RawIds, r \in RawRatings : setRating(i, r)) /\ UNCHANGED aggVars
  \/ (\E op \in pending, ok \in BOOLEAN : ensureUserDocumentDone(op, ok)) /\ UNCHANGED aggVars
  \/ (\E op \in pending, ok \in BOOLEAN : remoteWriteDone(op, ok)) /\ UNCHANGED aggVars
  \/ (\E i \in RawIds, cb \in Subscribers \cup {Null} : subscribeToRatings(i, cb))
       /\ UNCHANGED aggVars
  \/ (\E h \in handles : unsubscribe(h)) /\ UNCHANGED aggVars
  \/ (\E i \in RawIds : getRatings(i)) /\ UNCHANGED aggVars
  \/ (\E op \in pending, ok \in BOOLEAN : getRatingsDone(op, ok)) /\ UNCHANGED aggVars
  \/ (\E c \in Cards \cup {Null}, i \in RawIds, ok \in BOOLEAN : mountCard(c, i, ok))
       /\ UNCHANGED aggVars
  \/ (\E h \in handles : cleanupCard(h)) /\ UNCHANGED aggVars
  \/ (\E f \in feeds : storeNotify(f)) /\ UNCHANGED aggVars
  \/ (\E fs \in BOOLEAN, u \in InitNames \cup {Null} : init(fs, u)) /\ UNCHANGED aggVars
  \/ (\E u \in AppNames \cup {Null} : appUserChange(u)) /\ UNCHANGED aggVars
  \/ reload /\ UNCHANGED aggVars
  \/ (\E i \in Images, u \in OtherVoters, v \in OtherValues \cup {Undefined} :
        remoteOtherWrite(i, u, v)) /\ UNCHANGED aggVars

Spec == Init /\ [][Next]_vars

\* A registered live feed receives every snapshot of its collection: a change
\* of the remote store is eventually delivered to the onSnapshot callback.
LiveSpec ==
  Spec /\ \A i \in Images, c \in Cards :
            WF_vars(storeNotify([img |-> i, cb |-> c]) /\ UNCHANGED aggVars)

\* ------------------------------------------------------ throwing callbacks
\* Callbacks that throw when they are handed a vote map.
Throwers == {"cbThrow"}

\* subscribeToRatings with a callback that throws in the delivery of line 76:
\* the registration of lines 72-73 is done, the exception leaves the function
\* before the hydration of lines 79-83 and before a handle is returned.
subscribeThrows(imageId, callback) ==
  LET id == normalizeText(imageId)
      call == Entry("subscribeToRatings", id, callback, "throws", {}, EmptyMap)
  IN
  /\ ops < MaxOps
  /\ ops' = ops + 1
  /\ IF id = ""
       THEN /\ trace' = <<call, Mark("return", id)>>
            /\ UNCHANGED watchers
       ELSE /\ watchers' = addWatcher(watchers, id, callback)
            /\ trace' = <<call,
                          Entry("deliver", id, Null, Null, {callback}, getCachedRatings(cache, id)),
                          Mark("throw", id)>>
  /\ UNCHANGED <<latest, failed, db, currentUser, appUser, cache, handles, pending,
                 localStorage, remote, feeds, streak>>

ThrowNext ==
  \/ (\E i \in RawIds, cb \in Throwers : subscribeThrows(i, cb)) /\ UNCHANGED aggVars
  \/ (\E i \in RawIds, cb \in Subscribers : subscribeToRatings(i, cb)) /\ UNCHANGED aggVars
  \/ (\E h \in handles : unsubscribe(h)) /\ UNCHANGED aggVars
  \/ (\E i \in RawIds, r \in RawRatings : setRating(i, r)) /\ UNCHANGED aggVars
  \/ (\E op \in pending, ok \in BOOLEAN : getRatingsDone(op, ok)) /\ UNCHANGED aggVars

ThrowSpec == Init /\ [][ThrowNext]_vars

\* ------------------------------------------------------ the effective voter
\* What the three sources of the voter's name can hold when a vote is cast:
\* the binding made by init (a name or null), App.getUser() and the stored
\* 'houseColorUser' item (a name, the empty string or null).
BoundNames == {Null, "A", "B"}
StoredNames == {Null, "", "A", "B"}

VoterInit ==
  /\ db = FALSE
  /\ currentUser \in BoundNames
  /\ appUser \in StoredNames
  /\ localStorage \in {[houseRatings |-> NoItem, houseColorUser |-> name] : name \in StoredNames}
  /\ cache = EmptyStore
  /\ watchers = [i \in {} |-> {}]
  /\ handles = {}
  /\ remote = [i \in Images |-> EmptyMap]
  /\ feeds = {}
  /\ pending = {}
  /\ ops = 0
  /\ trace = <<>>
  /\ failed = {}
  /\ streak = NoStreak
  /\ latest = NoCalls
  /\ allRatings = EmptyStore
  /\ ratingsCache = EmptyStore
  /\ view = NoView
  /\ filtered = NoFilter
  /\ compareSelection = <<>>
  /\ compareCall = NoCompare
  /\ gallery = NoGallery
  /\ resultsView = NoResults
  /\ swatches = NoSwatches

VoterNext ==
  \/ (\E i \in RawIds, r \in RawRatings : setRating(i, r)) /\ UNCHANGED aggVars

VoterSpec == VoterInit /\ [][VoterNext]_vars

\* ------------------------------------------------------------- aggregation
\* Every vote map over the voters.
VoteMaps == UNION {[S -> VALID] : S \in SUBSET Users}

\* votes.filter((v) => v === value).length
countOf(ratings, value) == Cardinality({u \in DOMAIN ratings : ratings[u] = value})

\* categorizeImage with the controversial check ahead of the rejected check.
categorizeImageMixFirst(ratings) ==
  LET likes == countOf(ratings, "like")
      dislikes == countOf(ratings, "dislike")
  IN
  IF Cardinality(DOMAIN ratings) = 0 THEN "unrated"
  ELSE IF Cardinality(DOMAIN ratings) < 2 THEN "unrated"
  ELSE IF likes > 0 /\ dislikes = 0 THEN "consensus"
  ELSE IF likes > 0 /\ dislikes > 0 THEN "controversial"
  ELSE IF dislikes > likes THEN "rejected"
  ELSE "unrated"

\* Results.categorizeImage (part_002 lines 59-80).
categorizeImage(ratings) ==
  LET likes == countOf(ratings, "like")
      dislikes == countOf(ratings, "dislike")
  IN
  IF Cardinality(DOMAIN ratings) = 0 THEN "unrated"
  ELSE IF Cardinality(DOMAIN ratings) < 2 THEN "unrated"
  ELSE IF likes > 0 /\ dislikes = 0 THEN "consensus"
  ELSE IF dislikes > likes THEN "rejected"
  ELSE IF likes > 0 /\ dislikes > 0 THEN "controversial"
  ELSE "unrated"

\* Math.min(3, Math.max(0, likeCount)) of gallery.js line 288.
clamp03(n) == IF n < 0 THEN 0 ELSE IF n > 3 THEN 3 ELSE n

\* The group an image is pushed to by groupImagesByLikes (gallery.js lines
\* 281-289): Ratings exports no getLikeCount, so the likes are counted inline.
groupKey(ratings) == clamp03(countOf(ratings, "like"))

\* The catalog's vote maps as the results page and the gallery hold them.
AggInit ==
  /\ db = FALSE
  /\ currentUser = Null
  /\ appUser = Null
  /\ cache = EmptyStore
  /\ watchers = [i \in {} |-> {}]
  /\ handles = {}
  /\ localStorage = [houseRatings |-> NoItem, houseColorUser |-> Null]
  /\ remote = [i \in Images |-> EmptyMap]
  /\ feeds = {}
  /\ pending = {}
  /\ ops = 0
  /\ trace = <<>>
  /\ failed = {}
  /\ streak = NoStreak
  /\ latest = NoCalls
  /\ allRatings \in [Images -> VoteMaps]
  /\ ratingsCache = allRatings
  /\ view = NoView
  /\ filtered = NoFilter
  /\ compareSelection = <<>>
  /\ compareCall = NoCompare
  /\ gallery = NoGallery
  /\ resultsView = NoResults
  /\ swatches = NoSwatches

\* The results page categorizes every image of the catalog (categorizeImage
\* applied to allRatings[image.id] || {}).
categorizeImages ==
  /\ view' = [fn |-> "categorizeImage",
              category |-> [i \in Images |-> categorizeImage(getCachedRatings(allRatings, i))],
              key |-> [i \in {} |-> 0]]
  /\ UNCHANGED <<allRatings, ratingsCache, filtered, lightboxVars, pageVars>>
  /\ UNCHANGED ratingsVars

\* The gallery's tiered view groups every image whose vote map it holds
\* (getRatingsForImage answers from state.ratingsCache, gallery.js line 217).
groupImagesByLikes ==
  /\ \A i \in Images : i \in DOMAIN ratingsCache
  /\ view' = [fn |-> "groupImagesByLikes",
              category |-> [i \in {} |-> Null],
              key |-> [i \in Images |-> groupKey(ratingsCache[i])]]
  /\ UNCHANGED <<allRatings, ratingsCache, filtered, lightboxVars, pageVars>>
  /\ UNCHANGED ratingsVars

AggNext ==
  \/ categorizeImages
  \/ groupImagesByLikes

AggSpec == AggInit /\ [][AggNext]_vars

\* --------------------------------------------------------- rating filters
\* The images on display, in display order.
Shown == <<"img1", "img2", "img3">>

\* The values of the filter select; "other" stands for a value that matches
\* no case of the switch.
Filters == {"all", "unrated", "my-likes", "my-dislikes", "popular", "controversial", "other"}

\* Vote maps of two voters.
PairMaps == UNION {[S -> VALID] : S \in SUBSET {"A", "B"}}

\* gallery.js getCurrentUser: App.getUser() || stored name || "Guest".
getCurrentUser ==
  IF truthy(appUser) THEN appUser
  ELSE IF truthy(localStorage.houseColorUser) THEN localStorage.houseColorUser
  ELSE Guest

\* The switch with 'my-likes' decided on the like count of all voters.
keepsAnyLike(filter, ratings, user) ==
  IF filter = "unrated" THEN Cell(ratings, user) \notin VALID
  ELSE IF filter = "my-likes" THEN countOf(ratings, "like") > 0
  ELSE IF filter = "my-dislikes" THEN Cell(ratings, user) = "dislike"
  ELSE IF filter = "popular" THEN countOf(ratings, "like") >= 2
  ELSE IF filter = "controversial"
    THEN countOf(ratings, "like") > 0 /\ countOf(ratings, "dislike") > 0
  ELSE TRUE

\* The switch of applyRatingFilter for one image.
keeps(filter, ratings, user) ==
  LET myRating == Cell(ratings, user)
      likes == countOf(ratings, "like")
      dislikes == countOf(ratings, "dislike")
  IN
  IF filter = "unrated" THEN myRating \notin VALID
  ELSE IF filter = "my-likes" THEN myRating = "like"
  ELSE IF filter = "my-dislikes" THEN myRating = "dislike"
  ELSE IF filter = "popular" THEN likes >= 2
  ELSE IF filter = "controversial" THEN likes > 0 /\ dislikes > 0
  ELSE TRUE

RECURSIVE filterImages(_, _, _)
filterImages(images, filter, user) ==
  IF images = <<>> THEN <<>>
  ELSE LET image == Head(images)
           rest == filterImages(Tail(images), filter, user)
       IN IF keeps(filter, getCachedRatings(ratingsCache, image), user)
            THEN <<image>> \o rest
            ELSE rest

\* applyRatingFilter over the images on display; getRatingsForImage answers
\* from state.ratingsCache.
applyRatingFilter(filter) ==
  /\ filtered' = [filter |-> filter, user |-> getCurrentUser, images |-> Shown,
                  results |-> IF filter = "all" THEN Shown
                              ELSE filterImages(Shown, filter, getCurrentUser)]
  /\ UNCHANGED <<allRatings, ratingsCache, view, lightboxVars, pageVars>>
  /\ UNCHANGED ratingsVars

FilterInit ==
  /\ db = FALSE
  /\ currentUser = Null
  /\ appUser \in {Null, "A"}
  /\ localStorage \in {[houseRatings |-> NoItem, houseColorUser |-> name] : name \in {Null, "B"}}
  /\ cache = EmptyStore
  /\ watchers = [i \in {} |-> {}]
  /\ handles = {}
  /\ remote = [i \in Images |-> EmptyMap]
  /\ feeds = {}
  /\ pending = {}
  /\ ops = 0
  /\ trace = <<>>
  /\ failed = {}
  /\ streak = NoStreak
  /\ latest = NoCalls
  /\ ratingsCache \in [{Shown[k] : k \in 1..Len(Shown)} -> PairMaps]
  /\ allRatings = ratingsCache
  /\ view = NoView
  /\ filtered = NoFilter
  /\ compareSelection = <<>>
  /\ compareCall = NoCompare
  /\ gallery = NoGallery
  /\ resultsView = NoResults
  /\ swatches = NoSwatches

FilterNext ==
  \/ \E f \in Filters : applyRatingFilter(f)

FilterSpec == FilterInit /\ [][FilterNext]_vars

\* -------------------------------------------------------------- comparison
MAX_COMPARE == 3

\* The ids of the images that can be offered for comparison.
CompareIds == {"img1", "img2", "img3", "img4", "img5"}

\* compareSelection.indexOf(imageId), 0 for the -1 of JavaScript.
indexOf(sel, imageId) ==
  IF \E k \in 1..Len(sel) : sel[k] = imageId
    THEN CHOOSE k \in 1..Len(sel) : sel[k] = imageId /\ \A j \in 1..(k - 1) : sel[j] # imageId
    ELSE 0

\* compareSelection.splice(index, 1)
splice(sel, index) == SubSeq(sel, 1, index - 1) \o SubSeq(sel, index + 1, Len(sel))

\* toggleCompare without the check of the maximum.
toggleCompareUnbounded(imageId) ==
  LET index == indexOf(compareSelection, imageId) IN
  /\ compareSelection' = IF index > 0 THEN splice(compareSelection, index)
                         ELSE Append(compareSelection, imageId)
  /\ compareCall' = [fn |-> "toggleCompare", id |-> imageId, before |-> compareSelection,
                     returned |-> index = 0]
  /\ UNCHANGED <<allRatings, ratingsCache, view, filtered, pageVars>>
  /\ UNCHANGED ratingsVars

toggleCompare(imageId) ==
  LET index == indexOf(compareSelection, imageId) IN
  /\ IF index > 0
       THEN /\ compareSelection' = splice(compareSelection, index)
            /\ compareCall' = [fn |-> "toggleCompare", id |-> imageId,
                               before |-> compareSelection, returned |-> FALSE]
       ELSE IF Len(compareSelection) >= MAX_COMPARE
         THEN /\ compareSelection' = compareSelection
              /\ compareCall' = [fn |-> "toggleCompare", id |-> imageId,
                                 before |-> compareSelection, returned |-> FALSE]
         ELSE /\ compareSelection' = Append(compareSelection, imageId)
              /\ compareCall' = [fn |-> "toggleCompare", id |-> imageId,
                                 before |-> compareSelection, returned |-> TRUE]
  /\ UNCHANGED <<allRatings, ratingsCache, view, filtered, pageVars>>
  /\ UNCHANGED ratingsVars

clearComparison ==
  /\ compareSelection' = <<>>
  /\ compareCall' = [fn |-> "clearComparison", id |-> Null, before |-> compareSelection,
                     returned |-> Null]
  /\ UNCHANGED <<allRatings, ratingsCache, view, filtered, pageVars>>
  /\ UNCHANGED ratingsVars

CompareNext ==
  \/ \E i \in CompareIds : toggleCompare(i)
  \/ clearComparison

CompareSpec == Init /\ [][CompareNext]_vars

\* ---------------------------------------------------------- renderGallery
MaxRenders == 3

\* The values of state.currentFilter a render is started with.
RenderFilters == {"tiered", "all", "my-likes", "unrated"}

\* The vote maps the renders read: the voter A likes an image or has not
\* rated it.
RenderMaps == {EmptyMap, [u \in {"A"} |-> "like"]}

\* The images of a tier, in display order.
RECURSIVE tierImages(_, _)
tierImages(images, likeCount) ==
  IF images = <<>> THEN <<>>
  ELSE LET rest == tierImages(Tail(images), likeCount) IN
       IF groupKey(getCachedRatings(ratingsCache, Head(images))) = likeCount
         THEN <<Head(images)>> \o rest
         ELSE rest

\* The images a render makes cards for, in the order of the cards: the tiers
\* of TIERS from 3 likes down to 0, or the result of applyRatingFilter.
rendered(filter) ==
  IF filter = "tiered"
    THEN tierImages(Shown, 3) \o tierImages(Shown, 2) \o tierImages(Shown, 1)
           \o tierImages(Shown, 0)
  ELSE IF filter = "all" THEN Shown
  ELSE filterImages(Shown, filter, getCurrentUser)

\* renderGallery up to its await (lines 451-468 and the call of line 471 or
\* 494): cleanupSubscriptions runs and empties the list, the grid is emptied.
renderGalleryStart(filter) ==
  /\ gallery.renders < MaxRenders
  /\ gallery' = [grid |-> <<>>,
                 unsubscribers |-> <<>>,
                 mounted |-> gallery.mounted \ Range(gallery.unsubscribers),
                 rendering |-> gallery.rendering \cup {[n |-> gallery.renders, filter |-> filter]},
                 renders |-> gallery.renders + 1]
  /\ UNCHANGED <<allRatings, ratingsCache, view, filtered, lightboxVars, resultsView, swatches>>
  /\ UNCHANGED ratingsVars

\* renderGallery after its await (lines 472-490 or 496-505): a card is made
\* and mounted for every image, its cleanup pushed to state.unsubscribers
\* (lines 443-446), and the cards are appended to the grid.
renderGalleryDone(r) ==
  LET images == rendered(r.filter)
      cards == [k \in 1..Len(images) |-> [image |-> images[k], render |-> r.n]]
  IN
  /\ r \in gallery.rendering
  /\ gallery' = [gallery EXCEPT !.grid = @ \o cards,
                                !.unsubscribers = @ \o cards,
                                !.mounted = @ \cup Range(cards),
                                !.rendering = @ \ {r}]
  /\ UNCHANGED <<allRatings, ratingsCache, view, filtered, lightboxVars, resultsView, swatches>>
  /\ UNCHANGED ratingsVars

RenderInit ==
  /\ db = FALSE
  /\ currentUser = Null
  /\ appUser = "A"
  /\ cache = EmptyStore
  /\ watchers = [i \in {} |-> {}]
  /\ handles = {}
  /\ localStorage = [houseRatings |-> NoItem, houseColorUser |-> "A"]
  /\ remote = [i \in Images |-> EmptyMap]
  /\ feeds = {}
  /\ pending = {}
  /\ ops = 0
  /\ trace = <<>>
  /\ failed = {}
  /\ streak = NoStreak
  /\ latest = NoCalls
  /\ ratingsCache \in [Range(Shown) -> RenderMaps]
  /\ allRatings = ratingsCache
  /\ view = NoView
  /\ filtered = NoFilter
  /\ compareSelection = <<>>
  /\ compareCall = NoCompare
  /\ gallery = NoGallery
  /\ resultsView = NoResults
  /\ swatches = NoSwatches

RenderNext ==
  \/ \E f \in RenderFilters : renderGalleryStart(f)
  \/ \E r \in gallery.rendering : renderGalleryDone(r)

RenderSpec == RenderInit /\ [][RenderNext]_vars

\* ---------------------------------------------------------------- Swatches
\* The score and like count a swatch of data/swatches.json can carry; the
\* score is like = 2, unsure = 1, dislike = 0 over the votes, or is missing
\* (scored = FALSE).
SwatchKinds ==
  {[scored |-> FALSE, score |-> 0, likes |-> 0], [scored |-> TRUE, score |-> 0, likes |-> 0],
   [scored |-> TRUE, score |-> 2, likes |-> 1], [scored |-> TRUE, score |-> 2, likes |-> 0],
   [scored |-> TRUE, score |-> 3, likes |-> 1], [scored |-> TRUE, score |-> 4, likes |-> 2],
   [scored |-> TRUE, score |-> 4, likes |-> 1], [scored |-> TRUE, score |-> 5, likes |-> 2]}

SwatchIds == <<"s1", "s2", "s3">>

\* The values of the rating filter select.
SwatchFilters == {"all", "favorites", "strong", "promising", "controversial"}

\* s.score || 0
scoreOf(s) == IF s.scored THEN s.score ELSE 0

\* The comparator of line 429: a sorts before b.
before(a, b) ==
  scoreOf(a) > scoreOf(b) \/ (scoreOf(a) = scoreOf(b) /\ a.likes > b.likes)

\* Array.prototype.sort with that comparator (stable).
RECURSIVE sorted(_)
sorted(seq) ==
  IF seq = <<>> THEN <<>>
  ELSE LET rest == sorted(Tail(seq))
           x == Head(seq)
           LeadsX(y) == before(y, x)
           FollowsX(y) == ~before(y, x)
       IN SelectSeq(rest, LeadsX) \o <<x>> \o SelectSeq(rest, FollowsX)

applyLikesFilter(list, filter) ==
  LET AtLeast5(s) == scoreOf(s) >= 5
      AtLeast4(s) == scoreOf(s) >= 4
      AtLeast3(s) == scoreOf(s) >= 3
      AtMost2(s) == scoreOf(s) <= 2
  IN sorted(IF filter = "favorites" THEN SelectSeq(list, AtLeast5)
            ELSE IF filter = "strong" THEN SelectSeq(list, AtLeast4)
            ELSE IF filter = "promising" THEN SelectSeq(list, AtLeast3)
            ELSE IF filter = "controversial" THEN SelectSeq(list, AtMost2)
            ELSE list)

\* The swatches of one tier of lines 749-754: with an upper end, and without.
tierSwatches(list, min, max) ==
  LET InTier(s) == scoreOf(s) >= min /\ scoreOf(s) <= max
  IN SelectSeq(list, InTier)

tierSwatchesFrom(list, min) ==
  LET InTier(s) == scoreOf(s) >= min
  IN SelectSeq(list, InTier)

\* renderSwatches with every category shown (currentCategory 'all').
renderSwatches(filter) ==
  LET shown == applyLikesFilter(swatches.list, filter)
      cards == IF filter = "all"
                 THEN tierSwatchesFrom(shown, 5) \o tierSwatches(shown, 4, 4)
                        \o tierSwatches(shown, 3, 3) \o tierSwatches(shown, 1, 2)
                 ELSE shown
  IN
  /\ swatches' = [swatches EXCEPT !.filter = filter, !.count = Len(shown), !.cards = cards]
  /\ UNCHANGED <<allRatings, ratingsCache, view, filtered, lightboxVars, gallery, resultsView>>
  /\ UNCHANGED ratingsVars

SwatchInit ==
  /\ db = FALSE
  /\ currentUser = Null
  /\ appUser = Null
  /\ cache = EmptyStore
  /\ watchers = [i \in {} |-> {}]
  /\ handles = {}
  /\ localStorage = [houseRatings |-> NoItem, houseColorUser |-> Null]
  /\ remote = [i \in Images |-> EmptyMap]
  /\ feeds = {}
  /\ pending = {}
  /\ ops = 0
  /\ trace = <<>>
  /\ failed = {}
  /\ streak = NoStreak
  /\ latest = NoCalls
  /\ allRatings = EmptyStore
  /\ ratingsCache = EmptyStore
  /\ view = NoView
  /\ filtered = NoFilter
  /\ compareSelection = <<>>
  /\ compareCall = NoCompare
  /\ gallery = NoGallery
  /\ resultsView = NoResults
  /\ \E kinds \in [1..Len(SwatchIds) -> SwatchKinds] :
       swatches = [NoSwatches EXCEPT !.list =
         [k \in 1..Len(SwatchIds) |->
            [id |-> SwatchIds[k], scored |-> kinds[k].scored, score |-> kinds[k].score,
             likes |-> kinds[k].likes]]]

SwatchNext ==
  \/ \E f \in SwatchFilters : renderSwatches(f)

SwatchSpec == SwatchInit /\ [][SwatchNext]_vars

\* ------------------------------------------------------------ Results view
\* The catalog, in the order renderResults walks it.
allImages == <<"img1", "img2">>

Categories == {"consensus", "controversial", "rejected", "unrated"}

\* The options of the voter select: 'all' or a voter's name.
SelectedUsers == {"all"} \cup Users

\* The placement that ignores the selected voter.
placementOfEveryone(ratings, selectedUser) == categorizeImage(ratings)

\* The category renderResults pushes one image to (lines 173-187).
placement(ratings, selectedUser) ==
  IF selectedUser # "all"
    THEN LET userVote == Cell(ratings, selectedUser) IN
         IF userVote \in VALID
           THEN IF userVote = "like" THEN "consensus"
                ELSE IF userVote = "dislike" THEN "rejected"
                ELSE "controversial"
           ELSE "unrated"
    ELSE categorizeImage(ratings)

renderResults(selectedUser) ==
  /\ resultsView' =
       [selectedUser |-> selectedUser,
        categories |->
          [c \in Categories |->
             LET Placed(i) == placement(getCachedRatings(allRatings, i), selectedUser) = c
             IN SelectSeq(allImages, Placed)]]
  /\ UNCHANGED <<allRatings, ratingsCache, view, filtered, lightboxVars, gallery, swatches>>
  /\ UNCHANGED ratingsVars

ResultsNext ==
  \/ \E u \in SelectedUsers : renderResults(u)

ResultsSpec == AggInit /\ [][ResultsNext]_vars

\* ============================================================== properties
watchersOf(w, i) == IF i \in DOMAIN w THEN w[i] ELSE {}

\* Positions of the trace t at which callback cb received a map of image img.
Deliveries(t, cb, img) ==
  {k \in 1..Len(t) : t[k].e \in {"notify", "deliver"} /\ t[k].img = img /\ cb \in t[k].cbs}

\* Positions of the trace t at which a store write starts or settles.
StoreWrites(t) ==
  {k \in 1..Len(t) :
     t[k].e \in {"localWrite", "userDocStart", "remoteStart", "remoteAck", "remoteFail"}}

Has(t, e) == \E k \in 1..Len(t) : t[k].e = e

\* The last step was an accepted setRating call.
SetRatingStep(t) == Len(t) > 0 /\ t[1].e = "setRating" /\ Has(t, "cache")

AllCells == Images \X Users
cacheCell(c, i, u) == Cell(getCachedRatings(c, i), u)
localCell(ls, i, u) == Cell(getCachedRatings(loadOfflineStore(ls), i), u)

\* C1: from a state where the voter's cached vote for the image is not v,
\* consecutive setRating(img, v) calls by that voter with no hydration or store
\* notification of the image in between leave the voter holding v after an odd
\* number of calls and with no entry after an even number (period 2).
C1_TogglePeriod2 ==
  streak.count > 0 =>
    /\ streak.img \in DOMAIN cache
    /\ (streak.count % 2 = 1 => cacheCell(cache, streak.img, streak.user) = streak.value)
    /\ (streak.count % 2 = 0 => streak.user \notin DOMAIN cache[streak.img])

C1_Witness ==
  /\ streak.count = 3
  /\ cacheCell(cache, streak.img, streak.user) = streak.value

\* C2: every callback subscribed to the image before a setRating call receives
\* the new vote map inside that call, before any store write starts or settles.
C2_Step ==
  SetRatingStep(trace') =>
    \A cb \in watchersOf(watchers, trace'[1].img) :
      \E k \in Deliveries(trace', cb, trace'[1].img) :
        /\ trace'[k].map = cache'[trace'[1].img]
        /\ \A j \in StoreWrites(trace') : k < j

C2_OptimisticVisibility == [][C2_Step]_vars

C2_Witness ==
  /\ SetRatingStep(trace)
  /\ watchersOf(watchers, trace[1].img) # {}
  /\ StoreWrites(trace) # {}
  /\ \E k \in 1..Len(trace) : trace[k].e = "notify" /\ trace[k].map # EmptyMap

\* The last step resolved a getRatings call to its caller.
CallerResolve(t) == Len(t) > 0 /\ t[1].e = "resolve" /\ t[1].val = "caller"

\* The last step resolved the hydration read of a subscription.
HydrateResolve(t) == Len(t) > 0 /\ t[1].e = "resolve" /\ t[1].val = "hydrate"

\* C3: a vote whose remote write failed is held in the local record, and a
\* later getRatings of the image returns a map in which the voter holds it.
C3_FallbackDurability ==
  \A f \in failed :
    /\ localCell(localStorage, f.img, f.user) = f.value
    /\ (CallerResolve(trace) /\ trace[1].img = f.img) => Cell(trace[1].map, f.user) = f.value

\* C4: a setRating by one voter on one image, in its synchronous part and in
\* the settling of its store write, changes no cell of the cache, of the local
\* record or of the remote store other than that voter's cell of that image,
\* and creates or removes no other image's cache entry.
C4_Step ==
  (Len(trace') > 0 /\
   trace'[1].e \in {"setRating", "userDocDone", "userDocFail", "remoteAck", "remoteFail"}) =>
    /\ \A c \in AllCells :
         c # <<trace'[1].img, trace'[1].who>> =>
           /\ cacheCell(cache', c[1], c[2]) = cacheCell(cache, c[1], c[2])
           /\ localCell(localStorage', c[1], c[2]) = localCell(localStorage, c[1], c[2])
           /\ Cell(remote'[c[1]], c[2]) = Cell(remote[c[1]], c[2])
    /\ \A i \in Images \ {trace'[1].img} : (i \in DOMAIN cache') = (i \in DOMAIN cache)

C4_VoterIsolation == [][C4_Step]_vars

C4_Witness ==
  /\ SetRatingStep(trace)
  /\ \E u \in Users \ {trace[1].who} :
       /\ u \in DOMAIN cache[trace[1].img]
       /\ localCell(localStorage, trace[1].img, u) # Undefined

\* C5: a callback that is not registered for an image is invoked by no step
\* other than its own subscription; the handle of a subscription removes its
\* callback, and leaves the image without subscribers if it was the only one.
C5_Step ==
  /\ \A i \in Images, cb \in Subscribers \cup Cards :
       (cb \notin watchersOf(watchers, i) /\ cb \notin watchersOf(watchers', i)) =>
         Deliveries(trace', cb, i) = {}
  /\ (Len(trace') > 0 /\ trace'[1].e \in {"unsubscribe", "cleanupCard"}) =>
       /\ trace'[1].who \notin watchersOf(watchers', trace'[1].img)
       /\ (watchersOf(watchers, trace'[1].img) \subseteq {trace'[1].who} =>
             trace'[1].img \notin DOMAIN watchers')
       /\ \A i \in DOMAIN watchers' : watchers'[i] # {}

C5_UnsubscribeLeakFree == [][C5_Step]_vars

\* A setRating on an image for which a handle was handed out and called.
C5_Witness ==
  /\ SetRatingStep(trace)
  /\ \E h \in handles : h.img = trace[1].img /\ h.cb \notin watchersOf(watchers, h.img)
  /\ ~Has(trace, "notify")

\* C6: when the cache holds an entry for the image, getRatings returns that
\* cached map.
C6_CachedRead ==
  (CallerResolve(trace) /\ trace[1].img \in DOMAIN cache) =>
    trace[1].map = cache[trace[1].img]

\* C7: once getRatings of an image has resolved, the cache holds an entry for
\* the image, equal to the returned map when the read created it.
C7_Step ==
  (CallerResolve(trace') /\ trace'[1].img # "") =>
    /\ trace'[1].img \in DOMAIN cache'
    /\ trace'[1].img \notin DOMAIN cache => cache'[trace'[1].img] = trace'[1].map

C7_LazyPopulation == [][C7_Step]_vars

\* C8: a setRating whose rating is none of like, unsure, dislike changes
\* neither the cache, the local record, the remote store nor the operations in
\* flight, invokes no subscriber, broadcasts no change event and returns.
C8_Step ==
  (Len(trace') > 0 /\ trace'[1].e = "setRating" /\ trace'[1].val \notin {"like", "unsure", "dislike"}) =>
    /\ cache' = cache
    /\ localStorage' = localStorage
    /\ remote' = remote
    /\ pending' = pending
    /\ \A k \in 1..Len(trace') :
         trace'[k].e \notin {"notify", "deliver", "cache", "ratingChanged", "localWrite",
                             "userDocStart", "remoteStart"}
    /\ trace'[Len(trace')].e = "return"

C8_InvalidVoteIgnored == [][C8_Step]_vars

\* An invalid rating for an existing image that has a subscriber.
C8_Witness ==
  /\ Len(trace) > 0
  /\ trace[1].e = "setRating"
  /\ trace[1].val = "love"
  /\ trace[1].img \in Images
  /\ watchersOf(watchers, trace[1].img) # {}

\* The last step registered a callback (subscribeToRatings, directly or
\* through mountCard).
SubscribeStep(t) ==
  /\ Len(t) > 0
  /\ t[1].e \in {"subscribeToRatings", "mountCard"}
  /\ t[1].img # ""
  /\ t[1].who # Null

\* C9: a subscription delivers the current cached map (empty if there is
\* none) to its callback once, at once; and every step that sets the cached map
\* of an image delivers the new map to every callback subscribed to it.
C9_Step ==
  /\ SubscribeStep(trace') =>
       /\ Cardinality(Deliveries(trace', trace'[1].who, trace'[1].img)) = 1
       /\ \A k \in Deliveries(trace', trace'[1].who, trace'[1].img) :
            trace'[k].map = getCachedRatings(cache, trace'[1].img)
  /\ \A i \in Images :
       (i \in DOMAIN cache' /\ (i \notin DOMAIN cache \/ cache'[i] # cache[i] \/
          \E k \in 1..Len(trace') : trace'[k].e = "cache" /\ trace'[k].img = i)) =>
         \A cb \in watchersOf(watchers, i) :
           \E k \in Deliveries(trace', cb, i) : trace'[k].map = cache'[i]

C9_SubscribeDelivers == [][C9_Step]_vars

\* A hydration or a store notification reached a subscriber with votes.
C9_Witness ==
  /\ Len(trace) > 0
  /\ trace[1].e \in {"resolve", "snapshot"}
  /\ \E k \in 1..Len(trace) :
       trace[k].e = "notify" /\ trace[k].cbs # {} /\ trace[k].map # EmptyMap

\* The reads of image i in flight.
Reads(ops_, i) == {op \in ops_ : op.kind = "read" /\ op.img = i}

\* C10: a subscription to an image without a cache entry starts exactly one
\* hydration read of it, one to an image with a cache entry starts none; when
\* a hydration read resolves the cache holds its result and every callback
\* still subscribed receives it.
C10_Step ==
  /\ SubscribeStep(trace') =>
       /\ pending \subseteq pending'
       /\ trace'[1].img \notin DOMAIN cache =>
            /\ Cardinality(pending' \ pending) = 1
            /\ \A op \in pending' \ pending :
                 op.kind = "read" /\ op.img = trace'[1].img /\ op.value = "hydrate"
       /\ trace'[1].img \in DOMAIN cache => pending' = pending
  /\ HydrateResolve(trace') =>
       /\ trace'[1].img \in DOMAIN cache'
       /\ cache'[trace'[1].img] = trace'[1].map
       /\ \A cb \in watchersOf(watchers', trace'[1].img) :
            \E k \in Deliveries(trace', cb, trace'[1].img) : trace'[k].map = trace'[1].map

C10_HydrateOnce == [][C10_Step]_vars

\* A hydration resolved with votes for a callback still subscribed, and a
\* subscription to a cached image is in place too.
C10_Witness ==
  /\ HydrateResolve(trace)
  /\ trace[1].map # EmptyMap
  /\ watchersOf(watchers, trace[1].img) # {}
  /\ Has(trace, "notify")

\* The last step called a handle returned by subscribeToRatings.
UnsubscribeStep(t) == Len(t) > 0 /\ t[1].e = "unsubscribe"

\* C11: calling the handle returned by subscribeToRatings a second time, or
\* when the registry no longer has a subscriber set for the image, returns
\* normally and leaves the subscriber registry unchanged.
C11_Step ==
  (UnsubscribeStep(trace') /\
   (trace'[1].val = "again" \/ trace'[1].img \notin DOMAIN watchers)) =>
    /\ watchers' = watchers
    /\ trace'[Len(trace')].e = "return"

C11_UnsubscribeIdempotent == [][C11_Step]_vars

\* The asynchronous operations that left flight in the step from ops_ to next_.
Finished(ops_, next_) == {op \in ops_ : \A o \in next_ : o.n # op.n}

\* The store cell holds the delta: the value of a vote, nothing after a
\* retraction.
Applied(cell, value, off) == IF off THEN cell = Undefined ELSE cell = value

\* C12: every accepted setRating either writes its delta (the voter's vote, or
\* the removal of the voter's cell) to the local record at once or puts a
\* store write carrying that delta in flight; and when the store write leaves
\* flight, the remote store holds the delta if the write succeeded, and the
\* local record holds it if the write failed or no remote store is bound.
C12_Step ==
  /\ SetRatingStep(trace') =>
       LET id == trace'[1].img
           user == trace'[1].who
           value == trace'[1].val
           off == cacheCell(cache', id, user) = Undefined
       IN \/ /\ Has(trace', "localWrite")
             /\ Applied(localCell(localStorage', id, user), value, off)
          \/ \E op \in pending' \ pending :
               /\ op.kind = "set" /\ op.img = id /\ op.user = user
               /\ op.value = value /\ op.off = off
  /\ \A op \in Finished(pending, pending') :
       op.kind = "set" =>
         \/ /\ Has(trace', "remoteAck")
            /\ Applied(Cell(remote'[op.img], op.user), op.value, op.off)
         \/ /\ Has(trace', "remoteFail")
            /\ Has(trace', "localWrite")
            /\ Applied(localCell(localStorage', op.img, op.user), op.value, op.off)

C12_NoWriteLost == [][C12_Step]_vars

\* A vote for an image the local record did not hold fell back to the record.
C12_Witness ==
  /\ Len(trace) > 0
  /\ trace[1].e = "remoteFail"
  /\ localCell(localStorage, trace[1].img, trace[1].who) = trace[1].val
  /\ DOMAIN loadOfflineStore(localStorage) = {trace[1].img}

\* C13: the failure of a setRating's remote write changes no cached vote map
\* and notifies no subscriber.
C13_Step ==
  Has(trace', "remoteFail") =>
    /\ cache' = cache
    /\ \A k \in 1..Len(trace') : trace'[k].e \notin {"cache", "notify", "deliver"}

C13_NoRollback == [][C13_Step]_vars

\* The write of a vote failed while the image had a subscriber, and the cache
\* holds the optimistic value.
C13_Witness ==
  /\ Len(trace) > 0
  /\ trace[1].e = "remoteFail"
  /\ cacheCell(cache, trace[1].img, trace[1].who) = trace[1].val
  /\ watchersOf(watchers, trace[1].img) # {}

\* C14: no step rejects a promise; a setRating whose user-document write or
\* remote write failed returns, and a getRatings whose remote read failed
\* resolves to a vote map.
C14_Step ==
  /\ \A k \in 1..Len(trace') : trace'[k].e # "reject"
  /\ \A op \in Finished(pending, pending') :
       /\ op.kind = "set" => trace'[Len(trace')].e = "return"
       /\ op.kind = "read" =>
            /\ trace'[1].e = "resolve"
            /\ DOMAIN trace'[1].map \subseteq Users
            /\ \A u \in DOMAIN trace'[1].map : trace'[1].map[u] \in VALID

C14_NoFailurePropagates == [][C14_Step]_vars

\* The last step was the failure of a remote write, or of a remote read that
\* resolved to a map with votes.
C14_Witness ==
  /\ Len(trace) > 0
  /\ \/ trace[1].e = "remoteFail"
     \/ trace[1].e = "resolve" /\ trace[1].who = "fallback" /\ trace[1].val = "caller"

\* The last step resolved a getRatings whose remote read failed.
FailedRead(t) == Len(t) > 0 /\ t[1].e = "resolve" /\ t[1].who = "fallback"

\* C15: a getRatings whose remote read failed returns the empty vote map.
C15_FailedReadEmpty == FailedRead(trace) => trace[1].map = EmptyMap

\* C15, amended: a getRatings whose remote read failed returns the vote map
\* the local record holds for the image, the empty map if it holds none.
C15_FailedReadLocal ==
  FailedRead(trace) =>
    /\ \A u \in Users : Cell(trace[1].map, u) = localCell(localStorage, trace[1].img, u)
    /\ DOMAIN trace[1].map \subseteq Users
    /\ trace[1].img \notin DOMAIN loadOfflineStore(localStorage) => trace[1].map = EmptyMap

C15_Witness ==
  /\ FailedRead(trace)
  /\ trace[1].val = "caller"
  /\ trace[1].map # EmptyMap

\* A live feed of image i is registered.
Feed(i) == \E f \in feeds : f.img = i

\* The last step was a store notification of a live feed.
SnapshotStep(t) == Len(t) > 0 /\ t[1].e = "snapshot"

\* C16: a store notification of an image replaces the cached vote map by the
\* valid votes of the snapshot and delivers the new map to every subscriber
\* of the image.
C16_Step ==
  SnapshotStep(trace') =>
    LET i == trace'[1].img IN
    /\ i \in DOMAIN cache'
    /\ DOMAIN cache'[i] \subseteq DOMAIN remote[i]
    /\ \A u \in DOMAIN remote[i] :
         cacheCell(cache', i, u) = IF remote[i][u] \in VALID THEN remote[i][u] ELSE Undefined
    /\ \A cb \in watchersOf(watchers, i) :
         \E k \in Deliveries(trace', cb, i) : trace'[k].map = cache'[i]

\* A live feed of image i is registered and the cached map of the image lacks
\* a valid vote the remote store holds, or holds a different one for its voter.
Behind(i) ==
  /\ Feed(i)
  /\ \E u \in DOMAIN remote[i] :
       remote[i][u] \in VALID /\ cacheCell(cache, i, u) # remote[i][u]

\* C16: while a live feed of the image is registered, every vote held by the
\* remote store eventually appears in the cache, unless the feed is torn down
\* or the remote vote is changed first.
C16_Converges == \A i \in Images : Behind(i) ~> ~Behind(i)

C16_PushBridging == [][C16_Step]_vars /\ C16_Converges

\* A store notification brought another session's vote to a mounted card.
C16_Witness ==
  /\ SnapshotStep(trace)
  /\ \E u \in OtherVoters : cacheCell(cache, trace[1].img, u) \in VALID
  /\ \E k \in 1..Len(trace) :
       trace[k].e = "notify" /\ trace[k].cbs # {} /\ trace[k].map = cache[trace[1].img]

\* The cleanup handles of mounted cards that have been called.
CleanedUp(hs) == {h \in hs : h.kind = "card" /\ h.calls > 0}

\* C17: the cleanup handle of mountCard removes the card's live feed and the
\* card's callback from the registry; once it has run, no store notification
\* comes in through that feed, no step delivers a vote map to that callback,
\* and the feed is not registered again.
C17_Step ==
  /\ (Len(trace') > 0 /\ trace'[1].e = "cleanupCard") =>
       /\ \A f \in feeds' : ~(f.img = trace'[1].img /\ f.cb = trace'[1].who)
       /\ trace'[1].who \notin watchersOf(watchers', trace'[1].img)
  /\ \A h \in CleanedUp(handles) :
       /\ \A f \in feeds' : ~(f.img = h.img /\ f.cb = h.cb)
       /\ h.cb \notin watchersOf(watchers', h.img)
       /\ Deliveries(trace', h.cb, h.img) = {}
       /\ ~(SnapshotStep(trace') /\ trace'[1].img = h.img /\ trace'[1].who = h.cb)

C17_CleanupTearsDown == [][C17_Step]_vars

\* After the cleanup of a card mounted with a Firestore handle, the remote
\* store holds a vote for the card's image and the voter rates the image.
C17_Witness ==
  /\ SetRatingStep(trace)
  /\ db
  /\ \E h \in CleanedUp(handles) : h.img = trace[1].img /\ remote[h.img] # EmptyMap

\* Positions of the trace t at which the change event is broadcast.
Broadcasts(t) == {k \in 1..Len(t) : t[k].e = "ratingChanged"}

\* C18: a setRating call with a non-empty image id and a valid rating
\* broadcasts the change event exactly once, with the trimmed image id, after
\* the cache holds the new map and every subscriber has been notified; a
\* rejected call and every other step broadcast none.
C18_Step ==
  LET t == trace' IN
  IF Len(t) > 0 /\ t[1].e = "setRating" /\ t[1].img # "" /\ t[1].val \in VALID
    THEN /\ Cardinality(Broadcasts(t)) = 1
         /\ \A k \in Broadcasts(t) :
              /\ t[k].img = t[1].img
              /\ t[k].img \in Images
              /\ \E j \in 1..(k - 1) : t[j].e = "cache" /\ t[j].img = t[1].img
              /\ \A j \in 1..Len(t) : t[j].e \in {"cache", "notify"} => j < k
              /\ \A cb \in watchersOf(watchers, t[1].img) :
                   \E j \in Deliveries(t, cb, t[1].img) : j < k
         /\ getCachedRatings(cache', t[1].img) = t[CHOOSE j \in 1..Len(t) : t[j].e = "cache"].map
    ELSE Broadcasts(t) = {}

C18_OneChangeEvent == [][C18_Step]_vars

\* An accepted call for an image with a subscriber, which was notified.
C18_Witness ==
  /\ SetRatingStep(trace)
  /\ Broadcasts(trace) # {}
  /\ watchersOf(watchers, trace[1].img) # {}
  /\ Has(trace, "notify")

\* The last aggregation categorized the catalog.
Categorized == view.fn = "categorizeImage"

\* Vote maps of the catalog by their votes, whoever cast them.
Votes(ratings, value) == {u \in DOMAIN ratings : ratings[u] = value}
TwoVoters(ratings, v1, v2) ==
  \E a, b \in Users :
    a # b /\ DOMAIN ratings = {a, b} /\ ratings[a] = v1 /\ ratings[b] = v2

\* C19: every vote map gets exactly one of the four categories: unrated with
\* fewer than two votes; otherwise consensus with a like and no dislike,
\* rejected with more dislikes than likes, controversial with likes and
\* dislikes and no more dislikes than likes, and unrated with neither a like
\* nor a dislike. {} and {like} are unrated, {like, like} is consensus,
\* {like, dislike} controversial, {dislike, dislike} and {dislike, like,
\* dislike} rejected.
C19_Classification ==
  Categorized =>
    \A i \in Images :
      LET m == allRatings[i]
          n == Cardinality(DOMAIN m)
          l == Cardinality(Votes(m, "like"))
          d == Cardinality(Votes(m, "dislike"))
          c == view.category[i]
      IN
      /\ c \in {"consensus", "controversial", "rejected", "unrated"}
      /\ n < 2 => c = "unrated"
      /\ (n >= 2 /\ l >= 1 /\ d = 0) => c = "consensus"
      /\ (n >= 2 /\ d > l) => c = "rejected"
      /\ (n >= 2 /\ l > 0 /\ d > 0 /\ d <= l) => c = "controversial"
      /\ (n >= 2 /\ l = 0 /\ d = 0) => c = "unrated"
      /\ TwoVoters(m, "like", "like") => c = "consensus"
      /\ TwoVoters(m, "like", "dislike") => c = "controversial"
      /\ TwoVoters(m, "dislike", "dislike") => c = "rejected"
      /\ (n = 3 /\ d = 2 /\ l = 1) => c = "rejected"

\* Two dislikes against one like, and a like against a dislike.
C19_Witness ==
  /\ Categorized
  /\ Cardinality(Votes(allRatings["img1"], "dislike")) = 2
  /\ Cardinality(Votes(allRatings["img1"], "like")) = 1
  /\ view.category["img1"] = "rejected"
  /\ TwoVoters(allRatings["img2"], "like", "dislike")
  /\ view.category["img2"] = "controversial"

\* 2 x likes + 1 x unsures
score(ratings) ==
  2 * Cardinality(Votes(ratings, "like")) + Cardinality(Votes(ratings, "unsure"))

\* C20: the tier an image is bucketed into is decided by the score 2 x likes
\* + 1 x unsures of its vote map: images with equal scores share a tier and
\* an image with a higher score is in no lower tier.
C20_ScoreTiers ==
  view.fn = "groupImagesByLikes" =>
    \A i, j \in Images :
      /\ score(ratingsCache[i]) = score(ratingsCache[j]) => view.key[i] = view.key[j]
      /\ score(ratingsCache[i]) > score(ratingsCache[j]) => view.key[i] >= view.key[j]

\* A name that the || chain of resolveUser skips.
Skipped(name) == name \in {Null, ""}

\* C22: the voter of a setRating call is never missing or empty, and is the
\* first of the module's binding, App.getUser() and the stored name that is
\* neither null nor empty, the literal 'Guest' if there is none; a call with
\* an image id and a valid rating is therefore always carried out.
C22_Step ==
  (Len(trace') > 0 /\ trace'[1].e = "setRating") =>
    LET who == trace'[1].who
        stored == localStorage.houseColorUser
    IN
    /\ ~Skipped(who)
    /\ ~Skipped(currentUser) => who = currentUser
    /\ (Skipped(currentUser) /\ ~Skipped(appUser)) => who = appUser
    /\ (Skipped(currentUser) /\ Skipped(appUser) /\ ~Skipped(stored)) => who = stored
    /\ (Skipped(currentUser) /\ Skipped(appUser) /\ Skipped(stored)) => who = "Guest"
    /\ (trace'[1].img # "" /\ trace'[1].val \in VALID) =>
         /\ Has(trace', "cache")
         /\ trace'[1].img \in DOMAIN cache'

C22_VoterResolved == [][C22_Step]_vars

\* A vote cast under the stored name, with no binding and an empty App name.
C22_Witness ==
  /\ SetRatingStep(trace)
  /\ currentUser = Null
  /\ appUser = ""
  /\ localStorage.houseColorUser = "B"
  /\ cacheCell(cache, trace[1].img, "B") = trace[1].val

\* C23: as soon as a setRating call has run, the local serialized record
\* holds the vote it cast, and no longer holds the voter's cell after a
\* retraction; the same is true when the call has returned.
C23_Step ==
  /\ SetRatingStep(trace') =>
       LET i == trace'[1].img
           u == trace'[1].who
           v == trace'[1].val
       IN Applied(localCell(localStorage', i, u), v, cacheCell(cache, i, u) = v)
  /\ \A op \in Finished(pending, pending') :
       (op.kind = "set" /\ ~op.stale) =>
         Applied(localCell(localStorage', op.img, op.user), op.value, op.off)

C23_SavedLocallyAtOnce == [][C23_Step]_vars

\* C25: inside one accepted setRating call the cache is replaced first, then
\* every subscriber of the image is handed the new map, and only then does
\* the persistence of the vote begin: no cache update or notification of the
\* call comes after the start of its local or remote write.
C25_Step ==
  SetRatingStep(trace') =>
    LET i == trace'[1].img
        updates == {k \in 1..Len(trace') : trace'[k].e = "cache"}
        told == {k \in 1..Len(trace') : trace'[k].e \in {"notify", "deliver"}}
        persist == StoreWrites(trace')
    IN
    /\ persist # {}
    /\ updates # {}
    /\ \A k \in updates :
         /\ trace'[k].img = i
         /\ trace'[k].map = getCachedRatings(cache', i)
         /\ \A n \in told : k < n
    /\ \A n \in told :
         /\ trace'[n].img = i
         /\ trace'[n].map = getCachedRatings(cache', i)
         /\ \A w \in persist : n < w
    /\ watchersOf(watchers, i) = UNION {trace'[n].cbs : n \in told}
    /\ \A k \in updates, w \in persist : k < w

C25_NotifyBeforePersist == [][C25_Step]_vars

\* A vote cast with a remote store bound and a subscriber of the image: the
\* subscriber was told and the remote write was put in flight afterwards.
C25_Witness ==
  /\ SetRatingStep(trace)
  /\ db
  /\ watchersOf(watchers, trace[1].img) # {}
  /\ Has(trace, "notify")
  /\ Has(trace, "userDocStart")

\* C28: at most one store read of an image is in flight at a time.
C28_OneReadInFlight ==
  \A i \in Images :
    Cardinality({op \in Reads(pending, i) : op.stage = "fetch"}) <= 1

\* The cells of the voters of this session for which setRating was called.
Called == {p \in DOMAIN latest : p[2] \notin OtherVoters}

\* Nothing is in flight and every live feed has delivered the current state of
\* the remote store.
Quiescent ==
  /\ pending = {}
  /\ \A f \in feeds : getCachedRatings(cache, f.img) = snapshotRatings(remote[f.img])

\* C26: when a voter's setRating call was made while an earlier write of the
\* same cell was still in flight, then once nothing is in flight and the store
\* notifications are delivered, the voter's cached cell is the outcome of the
\* most recent call, whatever the order and result of the completions.
C26_LastCallWins ==
  Quiescent =>
    \A p \in Called :
      latest[p].older # {} => cacheCell(cache, p[1], p[2]) = latest[p].cell

\* C27: after a newer setRating call for a cell, no hydration or store
\* notification hands the subscribers a map in which the voter still holds
\* the value of a write that the newer call superseded.
C27_Step ==
  ~SetRatingStep(trace') =>
    \A k \in 1..Len(trace') :
      (trace'[k].e \in {"notify", "deliver"} /\ trace'[k].cbs # {}) =>
        \A p \in Called :
          (p \in DOMAIN latest' /\ p[1] = trace'[k].img) =>
            Cell(trace'[k].map, p[2]) \notin (latest[p].older \ {latest[p].cell})

C27_NoStaleRenotify == [][C27_Step]_vars

\* C30: when a hydration read resolves, a vote cast after the read was
\* started is still in the cache: the voter's cell is the outcome of that
\* later call, not what the read returned.
C30_Step ==
  HydrateResolve(trace') =>
    \A op \in Finished(pending, pending') :
      (op.kind = "read" /\ op.value = "hydrate") =>
        \A p \in Called :
          (p[1] = op.img /\ latest[p].n > op.n) =>
            cacheCell(cache', p[1], p[2]) = latest[p].cell

C30_HydrationKeepsNewer == [][C30_Step]_vars

\* The cells <<image, voter, vote>> of the local serialized record.
Record(ls) == ls.houseRatings.cells

\* The last step was a page reload.
ReloadStep(t) == Len(t) > 0 /\ t[1].e = "reload"

\* C24: with no remote store bound a vote is in the local serialized record
\* when setRating returns; a reload empties the cache and leaves the record
\* as it was; and getRatings with no remote store bound answers with the map
\* the record holds for the image, so that a vote cast before the reload is
\* returned after it.
C24_Step ==
  /\ (SetRatingStep(trace') /\ ~db) =>
       LET i == trace'[1].img
           u == trace'[1].who
           v == trace'[1].val
       IN IF cacheCell(cache, i, u) = v
            THEN \A c \in Record(localStorage') : ~(c[1] = i /\ c[2] = u)
            ELSE <<i, u, v>> \in Record(localStorage')
  /\ ReloadStep(trace') =>
       /\ cache' = EmptyStore
       /\ Record(localStorage') = Record(localStorage)
  /\ (Len(trace') > 0 /\ trace'[1].e = "getRatings" /\ ~db) =>
       \A op \in pending' \ pending :
         /\ op.stage = "resolved"
         /\ \A c \in Record(localStorage) : c[1] = op.img => Cell(op.result, c[2]) = c[3]
  /\ CallerResolve(trace') =>
       \A op \in Finished(pending, pending') :
         op.stage = "resolved" => trace'[1].map = op.result

C24_SurvivesReload == [][C24_Step]_vars

\* A getRatings call made after a reload, with an empty cache and no remote
\* store, that returned a vote cast before the reload.
C24_Witness ==
  /\ CallerResolve(trace)
  /\ trace[1].who = "local"
  /\ ~db
  /\ cache = EmptyStore
  /\ \E u \in Users : Cell(trace[1].map, u) \in VALID

\* The voter's own cell in the vote map the gallery holds for the image.
OwnCell(i) == Cell(getCachedRatings(ratingsCache, i), filtered.user)

\* C21: the filters 'my-likes', 'my-dislikes' and 'unrated' keep an image iff
\* the current voter's own vote on it is like, is dislike, or is absent,
\* whatever the other voters hold; the voter is App.getUser(), else the
\* stored name, else 'Guest'; so when the voter holds like on exactly one of
\* the N images on display and no vote on the others, 'my-likes' returns 1
\* image and 'unrated' returns N - 1.
C21_PerVoterFilter ==
  filtered.filter \in {"my-likes", "my-dislikes", "unrated"} =>
    LET images == Range(filtered.images)
        results == Range(filtered.results)
        liked == {i \in images : OwnCell(i) = "like"}
        stored == localStorage.houseColorUser
    IN
    /\ filtered.user = IF ~Skipped(appUser) THEN appUser
                       ELSE IF ~Skipped(stored) THEN stored ELSE "Guest"
    /\ results \subseteq images
    /\ Len(filtered.results) = Cardinality(results)
    /\ filtered.filter = "my-likes" => results = liked
    /\ filtered.filter = "my-dislikes" => results = {i \in images : OwnCell(i) = "dislike"}
    /\ filtered.filter = "unrated" => results = {i \in images : OwnCell(i) = Undefined}
    /\ (Cardinality(liked) = 1 /\ \A i \in images \ liked : OwnCell(i) = Undefined) =>
         /\ filtered.filter = "my-likes" => Len(filtered.results) = 1
         /\ filtered.filter = "unrated" => Len(filtered.results) = Len(filtered.images) - 1

\* The voter likes exactly one image and has not rated the others, which
\* another voter likes or dislikes: 'unrated' returned the other two.
C21_Witness ==
  /\ filtered.filter = "unrated"
  /\ filtered.user = "A"
  /\ Len(filtered.results) = 2
  /\ OwnCell("img2") = "like"
  /\ Cell(getCachedRatings(ratingsCache, "img1"), "B") = "like"
  /\ Cell(getCachedRatings(ratingsCache, "img3"), "B") = "dislike"
  /\ Cell(getCachedRatings(ratingsCache, "img2"), "B") = Undefined

\* C29: the comparison selection never holds more than 3 ids nor the same id
\* twice; toggleCompare of a selected id removes it, toggleCompare of a new
\* id while 3 are selected returns false and leaves the selection as it was,
\* and otherwise appends the id; clearComparison empties the selection.
C29_SelectionBound ==
  LET sel == compareSelection
      was == compareCall.before
      id == compareCall.id
  IN
  /\ Len(sel) <= 3
  /\ Cardinality(Range(sel)) = Len(sel)
  /\ compareCall.fn = "toggleCompare" =>
       /\ id \in Range(was) =>
            /\ id \notin Range(sel)
            /\ Range(sel) = Range(was) \ {id}
            /\ compareCall.returned = FALSE
       /\ (id \notin Range(was) /\ Len(was) = 3) =>
            /\ sel = was
            /\ compareCall.returned = FALSE
       /\ (id \notin Range(was) /\ Len(was) < 3) =>
            /\ sel = Append(was, id)
            /\ compareCall.returned = TRUE
  /\ compareCall.fn = "clearComparison" => sel = <<>>

\* A fourth id was offered while three were selected, and was rejected.
C29_Witness ==
  /\ compareCall.fn = "toggleCompare"
  /\ Len(compareCall.before) = 3
  /\ compareCall.id \notin Range(compareCall.before)
  /\ compareCall.returned = FALSE
  /\ compareSelection = compareCall.before

\* C35: a handle of subscribeToRatings removes only the registration that
\* created it: as long as a handle has not been called, its callback is
\* subscribed to its image, whatever other handles of the same callback and
\* image have been called.
C35_HandleOwnsRegistration ==
  \A h \in handles :
    (h.kind = "sub" /\ h.calls = 0) => h.cb \in watchersOf(watchers, h.img)

\* The vote maps named by the entries of a trace.
Handed(t) ==
  {t[k].map : k \in {j \in 1..Len(t) :
                       t[j].e \in {"cache", "notify", "deliver", "resolve", "snapshot"}}}

\* Every value of a vote map is one of like, unsure, dislike.
ValidMap(m) == \A u \in DOMAIN m : m[u] \in {"like", "unsure", "dislike"}

\* C38: every value of every cached vote map, of the local record, of every
\* map delivered to a subscriber and of every map returned by getRatings is
\* one of like, unsure, dislike.
C38_OnlyValidVotes ==
  /\ \A i \in DOMAIN cache : ValidMap(cache[i])
  /\ \A c \in Record(localStorage) : c[3] \in {"like", "unsure", "dislike"}
  /\ \A m \in Handed(trace) : ValidMap(m)

\* The remote store holds a document with another value, and a store
\* notification of that image was delivered to a subscriber.
C38_Witness ==
  /\ SnapshotStep(trace)
  /\ \E u \in DOMAIN remote[trace[1].img] : remote[trace[1].img][u] \notin VALID
  /\ \E k \in 1..Len(trace) : trace[k].e = "notify" /\ trace[k].cbs # {}

\* The vote store holds voter -> v for the image: in the remote store, or in
\* the local record that takes the votes the remote store did not.
StoreHolds(i, u, v) ==
  \/ Cell(snapshotRatings(remote[i]), u) = v
  \/ localCell(localStorage, i, u) = v

\* No write of the voter's cell is in flight.
Settled(i, u) == \A op \in pending : ~(op.kind = "set" /\ op.img = i /\ op.user = u)

\* C32: with no write of the cell in flight, an accepted setRating(img, v)
\* retracts the voter's vote exactly when the vote store holds voter -> v for
\* the image, also when the image has no cache entry yet.
C32_Step ==
  SetRatingStep(trace') =>
    LET i == trace'[1].img
        u == trace'[1].who
        v == trace'[1].val
    IN (Settled(i, u) /\ u \notin OtherVoters) =>
         (cacheCell(cache', i, u) = Undefined <=> StoreHolds(i, u, v))

C32_ToggleFollowsStore == [][C32_Step]_vars

\* C34: while the write of a setRating call is in flight, a store
\* notification of the same image leaves the voter's cached cell at the
\* optimistic value of that call.
C34_Step ==
  SnapshotStep(trace') =>
    \A op \in pending :
      (op.kind = "set" /\ ~op.stale /\ op.img = trace'[1].img /\ op.user \notin OtherVoters) =>
        Applied(cacheCell(cache', op.img, op.user), op.value, op.off)

C34_PendingEntryKept == [][C34_Step]_vars

\* C31: a getRatings call made for the image right after a setRating call,
\* as a listener of 'ratingChanged' makes it, resolves to a map in which the
\* voter's cell is the outcome of that call.
C31_Step ==
  CallerResolve(trace') =>
    \A op \in Finished(pending, pending') :
      (op.kind = "read" /\ op.value = "caller") =>
        \A p \in Called :
          (p[1] = op.img /\ latest[p].n + 1 = op.n) =>
            Cell(trace'[1].map, p[2]) = latest[p].cell

C31_RereadSeesVote == [][C31_Step]_vars

\* C33: after a retraction whose remote delete failed and fell back to the
\* local record, and until the voter rates the image again, no map returned
\* by getRatings, installed by a hydration or a store notification, or
\* delivered to a subscriber holds the retracted vote for the voter.
C33_Step ==
  \A p \in Called :
    (latest[p].fellBack /\ latest[p].cell = Undefined /\ p \in DOMAIN latest'
       /\ latest'[p] = latest[p]) =>
      /\ cacheCell(cache', p[1], p[2]) # latest[p].value
      /\ \A k \in 1..Len(trace') :
           (trace'[k].img = p[1] /\
            trace'[k].e \in {"cache", "notify", "deliver", "resolve", "snapshot"}) =>
             Cell(trace'[k].map, p[2]) # latest[p].value

C33_RetractionStays == [][C33_Step]_vars

\* C36: a callback that threw in the immediate delivery of subscribeToRatings,
\* so that no handle for it exists, is not in the subscriber registry after
\* the call and is invoked by no later step.
C36_Step ==
  \A i \in Images, cb \in Throwers :
    (\A h \in handles' : ~(h.img = i /\ h.cb = cb)) =>
      /\ cb \notin watchersOf(watchers', i)
      /\ (Len(trace') > 0 /\ trace'[1].e # "subscribeToRatings") =>
           Deliveries(trace', cb, i) = {}

C36_NoRegistrationAfterThrow == [][C36_Step]_vars

\* The categories that hold the image, and how often they hold it.
PlacedIn(i) == {c \in DOMAIN resultsView.categories : i \in Range(resultsView.categories[c])}
Occurrences(seq, x) == Cardinality({k \in 1..Len(seq) : seq[k] = x})

\* C39: renderResults places every catalog image in exactly one of the four
\* categories, once, for 'all' and for any selected voter; with a voter
\* selected the category is decided by that voter's own vote: like ->
\* consensus, dislike -> rejected, unsure -> controversial, none -> unrated.
C39_OneCategory ==
  resultsView.selectedUser # Null =>
    /\ DOMAIN resultsView.categories = {"consensus", "controversial", "rejected", "unrated"}
    /\ \A i \in Images :
         /\ Cardinality(PlacedIn(i)) = 1
         /\ \A c \in PlacedIn(i) : Occurrences(resultsView.categories[c], i) = 1
         /\ resultsView.selectedUser # "all" =>
              LET own == Cell(getCachedRatings(allRatings, i), resultsView.selectedUser) IN
              /\ own = "like" => PlacedIn(i) = {"consensus"}
              /\ own = "dislike" => PlacedIn(i) = {"rejected"}
              /\ own = "unsure" => PlacedIn(i) = {"controversial"}
              /\ own = Undefined => PlacedIn(i) = {"unrated"}

\* Voter A selected: A is unsure about an image the others like, and has no
\* vote on an image the others dislike.
C39_Witness ==
  /\ resultsView.selectedUser = "A"
  /\ allRatings["img1"] = [u \in {"A", "B", "Guest"} |-> IF u = "A" THEN "unsure" ELSE "like"]
  /\ allRatings["img2"] = [u \in {"B", "Guest"} |-> "dislike"]
  /\ resultsView.categories["controversial"] = <<"img1">>
  /\ resultsView.categories["unrated"] = <<"img2">>

\* C37: once every renderGallery call has completed, all cards of the grid
\* come from one render, every image has at most one card in the grid, and
\* the cleanup of every mounted card is in state.unsubscribers exactly once.
C37_OneRenderShown ==
  gallery.rendering = {} =>
    /\ \A j, k \in 1..Len(gallery.grid) :
         /\ gallery.grid[j].render = gallery.grid[k].render
         /\ gallery.grid[j].image = gallery.grid[k].image => j = k
    /\ \A card \in gallery.mounted : Occurrences(gallery.unsubscribers, card) = 1

\* C40: in the 'all' view of the swatches every swatch counted in the
\* displayed total has exactly one card, so the number of cards equals the
\* displayed count.
C40_TiersPartition ==
  swatches.filter = "all" =>
    /\ swatches.count = Len(swatches.list)
    /\ Len(swatches.cards) = swatches.count
    /\ \A k \in 1..Len(swatches.list) : Occurrences(swatches.cards, swatches.list[k]) = 1

====
